---- MODULE Spec2Model ----
(***************************************************************************)
(* A model of torchdistill/models/special.py: the special-module registry, *)
(* the wrapper contract (forward / post_forward / post_process), the       *)
(* checkpointing wrappers and the index arithmetic of WindowAttention.     *)
(***************************************************************************)
EXTENDS Integers, Sequences, FiniteSets, TLC

VARIABLES
    SPECIAL_CLASS_DICT, \* special.py:13, the process-wide registry: class name -> class
    call,               \* the operation last invoked, with its arguments
    ret,                \* how that operation ended: a returned value or a raised error
    ctor_calls,         \* the constructor invocations that operation made, in order
    logged,             \* whether that operation emitted the logger.info diagnostic
    last_registered,    \* history: class name -> class most recently passed to register
    instance,           \* the wrapper under use (None before one is constructed)
    io_dict,            \* the IO dictionary of the hook collaborator: path -> io type -> tensor
    module_calls,       \* the module invocations the last wrapper operation made, in order
    files,              \* the file system: checkpoint path -> the state dict stored there
    modules,            \* the checkpointing wrappers alive, by slot (None: no wrapper)
    last_saved,         \* history: path -> what post_process most recently wrote there
    attn,               \* the WindowAttention module under use (None before construction)
    x_in,               \* the grid given to it: position -> label of the element there
    x_now               \* the grid at the current point of the forward pass

registry_vars == <<SPECIAL_CLASS_DICT, ctor_calls, logged, last_registered>>
wrapper_vars == <<instance, io_dict, module_calls>>
ckpt_vars == <<files, modules, last_saved>>
attn_vars == <<attn, x_in, x_now>>
vars == <<call, ret, registry_vars, wrapper_vars, ckpt_vars, attn_vars>>

(***************************************************************************)
(* Python values.  Every value carries its type tag.                       *)
(***************************************************************************)
None == [t |-> "NoneType"]
Str(s) == [t |-> "str", v |-> s]
Dict(d) == [t |-> "dict", v |-> d]
Obj(i) == [t |-> "object", v |-> i]
Cls(c) == [t |-> "type", v |-> c]
IsNone(x) == x.t = "NoneType"

EmptyDict == [k \in {} |-> None]

\* dict.get(key, default)
DictGet(d, k, default) == IF k \in DOMAIN d THEN d[k] ELSE default

\* f(**a, **b) for two mappings with disjoint keys
MergeKw(a, b) == [k \in (DOMAIN a) \cup (DOMAIN b) |-> IF k \in DOMAIN a THEN a[k] ELSE b[k]]

\* how a call ends
Return(v) == [kind |-> "return", value |-> v]
Raise(e) == [kind |-> "raise", exc |-> e]

(***************************************************************************)
(* Bounds.                                                                 *)
(***************************************************************************)
NumModels == 1      \* backbone / configuration objects are Obj(1) .. Obj(NumModels)

Objects == {Obj(i) : i \in 1..NumModels}
Values == {None} \cup Objects

\* every mapping from a subset of keys to values
Mappings(keys, vals) == UNION {[ks -> vals] : ks \in SUBSET keys}

(***************************************************************************)
(* Classes.  A class object is named by an identifier; ClsName is its      *)
(* __name__.  EmptyModule and HeadRCNN are registered when the module is   *)
(* loaded (the @register_special_module decorators); UserModule is a class *)
(* of a client registered later, and EmptyModule_redefined is a second,    *)
(* distinct class whose __name__ is also "EmptyModule".                    *)
(***************************************************************************)
BuiltinClasses == {"EmptyModule", "HeadRCNN"}
Classes == BuiltinClasses \cup {"UserModule", "EmptyModule_redefined"}

ClsName(cls) == IF cls = "EmptyModule_redefined" THEN "EmptyModule" ELSE cls

Names == {ClsName(c) : c \in Classes} \cup {"Unregistered"}

Instance(cls, fields) == [t |-> "instance", cls |-> cls, fields |-> fields]

\* the attributes a wrapper's __init__ sets: the backbone (self.model,
\* self.student_model or self.teacher_model), self.is_teacher, the auxiliary
\* sub-networks by name, self.io_path_pairs as (name, io_type, path) triples, and
\* whether post_forward flattens the entry it reads
Fields(model, is_teacher, aux, io_path_pairs, flat) ==
    [model |-> model, is_teacher |-> is_teacher, aux |-> aux,
     io_path_pairs |-> io_path_pairs, flat |-> flat]

\* EmptyModule.__init__(self, **kwargs): accepts any keyword arguments
EmptyModule_init(cls, kwargs) == Return(Instance(cls, Fields(None, FALSE, EmptyDict, <<>>, FALSE)))

\* HeadRCNN.__init__(self, head_rcnn, **kwargs)
HeadRCNN_init(cls, kwargs) ==
    IF "head_rcnn" \notin DOMAIN kwargs THEN Raise("TypeError")
    ELSE LET tmp_ref_model == DictGet(kwargs, "teacher_model", None)
             ref_model == DictGet(kwargs, "student_model", tmp_ref_model)
         IN IF IsNone(ref_model) THEN Raise("ValueError")
            ELSE Return(Instance(cls, Fields(ref_model, FALSE, EmptyDict, <<>>, FALSE)))

\* cls(**kwargs): the constructor call of special.py:729
Construct(cls, kwargs) ==
    IF cls = "HeadRCNN" THEN HeadRCNN_init(cls, kwargs)
    ELSE EmptyModule_init(cls, kwargs)

(***************************************************************************)
(* The registry, special.py:13-20 and 724-740.                             *)
(***************************************************************************)
\* a register that keeps the first class registered under a name
register_first_wins(cls, D) ==
    IF ClsName(cls) \in DOMAIN D THEN D
    ELSE [n \in (DOMAIN D) \cup {ClsName(cls)} |-> IF n = ClsName(cls) THEN cls ELSE D[n]]

\* SPECIAL_CLASS_DICT[cls.__name__] = cls
register_special_module(cls, D) ==
    [n \in (DOMAIN D) \cup {ClsName(cls)} |-> IF n = ClsName(cls) THEN cls ELSE D[n]]

\* a lookup that raises KeyError on an unregistered name
get_special_module_unguarded(class_name, kwargs, D) ==
    IF class_name \notin DOMAIN D
    THEN [out |-> Raise("KeyError"), calls |-> <<>>, logged |-> FALSE]
    ELSE [out |-> Construct(D[class_name], kwargs),
          calls |-> <<[cls |-> D[class_name], kwargs |-> kwargs]>>,
          logged |-> FALSE]

\* get_special_module(class_name, **kwargs): outcome, constructor calls made, log
get_special_module(class_name, kwargs, D) ==
    IF class_name \notin DOMAIN D
    THEN [out |-> Return(None), calls |-> <<>>, logged |-> TRUE]
    ELSE [out |-> Construct(D[class_name], kwargs),
          calls |-> <<[cls |-> D[class_name], kwargs |-> kwargs]>>,
          logged |-> FALSE]

\* the parameters build_special_module reads from the configuration
special_model_type_of(model_config) ==
    DictGet(DictGet(model_config, "special", EmptyDict), "type", None)

special_model_params_of(model_config) ==
    LET special_model_params_config ==
            DictGet(DictGet(model_config, "special", EmptyDict), "params", None)
    IN IF IsNone(special_model_params_config) THEN EmptyDict
       ELSE special_model_params_config.v

\* a build in which the configured params silently override the caller's kwargs
build_special_module_override(model_config, kwargs, D) ==
    LET special_model_type == special_model_type_of(model_config)
        special_model_params_config == special_model_params_of(model_config)
    IN IF ~IsNone(special_model_type)
       THEN get_special_module(special_model_type.v,
                               MergeKw(special_model_params_config, kwargs), D)
       ELSE [out |-> Return(None), calls |-> <<>>, logged |-> FALSE]

\* a build that looks the default type up instead of returning
build_special_module_default(model_config, kwargs, D) ==
    LET special_model_type == special_model_type_of(model_config)
        special_model_params_config == special_model_params_of(model_config)
    IN IF (DOMAIN kwargs) \cap (DOMAIN special_model_params_config) # {}
       THEN [out |-> Raise("TypeError"), calls |-> <<>>, logged |-> FALSE]
       ELSE get_special_module(IF IsNone(special_model_type) THEN "EmptyModule"
                                                            ELSE special_model_type.v,
                               MergeKw(kwargs, special_model_params_config), D)

\* build_special_module(model_config, **kwargs).  A keyword given both in kwargs
\* and in params makes the call expression of line 740 raise TypeError before
\* get_special_module is entered.
build_special_module(model_config, kwargs, D) ==
    LET special_model_type == special_model_type_of(model_config)
        special_model_params_config == special_model_params_of(model_config)
    IN IF ~IsNone(special_model_type)
       THEN IF (DOMAIN kwargs) \cap (DOMAIN special_model_params_config) # {}
            THEN [out |-> Raise("TypeError"), calls |-> <<>>, logged |-> FALSE]
            ELSE get_special_module(special_model_type.v,
                                    MergeKw(kwargs, special_model_params_config), D)
       ELSE [out |-> Return(None), calls |-> <<>>, logged |-> FALSE]

(***************************************************************************)
(* Inputs of the registry operations.                                      *)
(***************************************************************************)
KwKeys == {"teacher_model", "student_model"}        \* keywords callers pass (line 127)
ParamKeys == {"head_rcnn", "student_model"}         \* keywords a configuration supplies

KwargsSet == Mappings(KwKeys, Values)
ParamsSet == Mappings(ParamKeys, {Obj(1)})

\* 'special' mappings: 'type' absent, None or a name; 'params' absent, None or a mapping
SpecialConfigs ==
    UNION {[ks -> {None} \cup {Str(n) : n \in Names} \cup {Dict(p) : p \in ParamsSet}]
              : ks \in SUBSET {"type", "params"}}

WellTyped(sc) ==
    /\ "type" \in DOMAIN sc => sc["type"].t \in {"NoneType", "str"}
    /\ "params" \in DOMAIN sc => sc["params"].t \in {"NoneType", "dict"}

\* model_config: with or without the 'special' key
ModelConfigs ==
    {EmptyDict} \cup {[k \in {"special"} |-> sc] : sc \in {s \in SpecialConfigs : WellTyped(s)}}

(***************************************************************************)
(* Registry actions.                                                       *)
(***************************************************************************)
\* the process after `import torchdistill.models.special`: the decorators have
\* registered the classes of the module, nothing has been called yet
Imported ==
    /\ SPECIAL_CLASS_DICT = [n \in BuiltinClasses |-> n]
    /\ last_registered = [n \in BuiltinClasses |-> n]
    /\ ctor_calls = <<>>
    /\ logged = FALSE
    /\ call = [op |-> "import"]
    /\ ret = Return(None)

\* the parts of the state a specification does not exercise stay as they start
WrapperIdle == instance = None /\ io_dict = EmptyDict /\ module_calls = <<>>
CkptIdle == files = EmptyDict /\ modules = <<>> /\ last_saved = EmptyDict
AttnIdle == attn = None /\ x_in = <<>> /\ x_now = <<>>

InitRegistry == Imported /\ WrapperIdle /\ CkptIdle /\ AttnIdle

Register(cls) ==
    /\ SPECIAL_CLASS_DICT' = register_special_module(cls, SPECIAL_CLASS_DICT)
    /\ last_registered' =
           [n \in (DOMAIN last_registered) \cup {ClsName(cls)} |->
               IF n = ClsName(cls) THEN cls ELSE last_registered[n]]
    /\ call' = [op |-> "register", cls |-> cls]
    /\ ret' = Return(Cls(cls))
    /\ ctor_calls' = <<>>
    /\ logged' = FALSE
    /\ UNCHANGED <<wrapper_vars, ckpt_vars, attn_vars>>

Get(class_name, kwargs) ==
    LET r == get_special_module(class_name, kwargs, SPECIAL_CLASS_DICT)
    IN /\ call' = [op |-> "get", class_name |-> class_name, kwargs |-> kwargs]
       /\ ret' = r.out
       /\ ctor_calls' = r.calls
       /\ logged' = r.logged
       /\ UNCHANGED <<SPECIAL_CLASS_DICT, last_registered>>
       /\ UNCHANGED <<wrapper_vars, ckpt_vars, attn_vars>>

Build(model_config, kwargs) ==
    LET r == build_special_module(model_config, kwargs, SPECIAL_CLASS_DICT)
    IN /\ call' = [op |-> "build", model_config |-> model_config, kwargs |-> kwargs]
       /\ ret' = r.out
       /\ ctor_calls' = r.calls
       /\ logged' = r.logged
       /\ UNCHANGED <<SPECIAL_CLASS_DICT, last_registered>>
       /\ UNCHANGED <<wrapper_vars, ckpt_vars, attn_vars>>

Init == InitRegistry

Next ==
    \/ \E cls \in Classes : Register(cls)
    \/ \E class_name \in Names, kwargs \in KwargsSet \cup ParamsSet : Get(class_name, kwargs)
    \/ \E model_config \in ModelConfigs, kwargs \in KwargsSet : Build(model_config, kwargs)

Spec == Init /\ [][Next]_vars

(***************************************************************************)
(* Registry claims.                                                        *)
(***************************************************************************)
\* what the last call was given, read off the call record
IsBuild == call.op = "build"
IsGet == call.op = "get"
CallSpecial == DictGet(call.model_config, "special", EmptyDict)
TypeAbsent ==
    \/ "special" \notin DOMAIN call.model_config
    \/ "type" \notin DOMAIN call.model_config["special"]
    \/ call.model_config["special"]["type"] = None
TypeName == call.model_config["special"]["type"].v
CallParams ==
    IF "params" \in DOMAIN CallSpecial /\ CallSpecial["params"].t = "dict"
    THEN CallSpecial["params"].v ELSE EmptyDict
Collision == (DOMAIN call.kwargs) \cap (DOMAIN CallParams) # {}
OneCall(cls, kwargs) == <<[cls |-> cls, kwargs |-> kwargs]>>
ReturnsInstanceOf(cls) ==
    /\ ret.kind = "return"
    /\ ret.value.t = "instance"
    /\ ret.value.cls = cls

\* what constructing cls with the merged keywords gives
BuiltFrom(cls) ==
    /\ ctor_calls = OneCall(cls, MergeKw(call.kwargs, CallParams))
    /\ ret = Construct(cls, MergeKw(call.kwargs, CallParams))
    /\ ret.kind = "return" => ReturnsInstanceOf(cls)

\* C1 as stated: building with the name of a registered class returns an
\* instance of that class, constructed once with kwargs merged with params
\* (read generously: an error raised by the constructor itself may propagate).
C1_Original ==
    (IsBuild /\ ~TypeAbsent /\ TypeName \in DOMAIN last_registered) =>
        BuiltFrom(last_registered[TypeName])

\* C1, amended: when C is the class most recently registered under its name and
\* no key of special.params is also a key of kwargs, build calls C's constructor
\* exactly once, with kwargs merged with params (absent or None params: empty),
\* and returns the instance of C it produces (an error raised by the constructor
\* propagates).
C1_BuildConstructsRegistered ==
    (IsBuild /\ ~TypeAbsent /\ TypeName \in DOMAIN last_registered /\ ~Collision) =>
        BuiltFrom(last_registered[TypeName])

C1_Witness ==
    /\ IsBuild /\ ~TypeAbsent /\ ~Collision
    /\ TypeName = "HeadRCNN"
    /\ DOMAIN call.kwargs = {"teacher_model"}
    /\ DOMAIN CallParams = {"head_rcnn"}
    /\ ReturnsInstanceOf("HeadRCNN")
    /\ Len(ctor_calls) = 1
    /\ DOMAIN ctor_calls[1].kwargs = {"teacher_model", "head_rcnn"}

\* C2 as stated: an unregistered name makes get and build return None without
\* raising and without constructing, and the registry is left as it was.
UnknownName ==
    \/ IsGet /\ call.class_name \notin DOMAIN SPECIAL_CLASS_DICT
    \/ IsBuild /\ ~TypeAbsent /\ TypeName \notin DOMAIN SPECIAL_CLASS_DICT

C2_Original == UnknownName => (ret = Return(None) /\ ctor_calls = <<>>)

\* C2, amended: an unregistered name makes get_special_module, and
\* build_special_module when no key of special.params is also a key of kwargs,
\* return None without raising; in every case no constructor is invoked and the
\* registry mapping is unchanged (with a colliding key build raises instead).
C2_UnknownNameState ==
    UnknownName =>
        /\ ctor_calls = <<>>
        /\ (IsGet \/ ~Collision) => (ret = Return(None) /\ logged)
C2_UnknownNameStep ==
    (call'.op \in {"get", "build"}) => SPECIAL_CLASS_DICT' = SPECIAL_CLASS_DICT
C2_UnknownName == [](C2_UnknownNameState) /\ [][C2_UnknownNameStep]_vars

C2_Witness ==
    /\ IsBuild /\ ~TypeAbsent /\ TypeName = "UserModule"
    /\ "UserModule" \notin DOMAIN SPECIAL_CLASS_DICT
    /\ DOMAIN call.kwargs = {"teacher_model"} /\ DOMAIN CallParams = {"head_rcnn"}
    /\ ret = Return(None)

\* C3: the registry holds, for each class name ever registered, the class most
\* recently registered under it; register returns its argument; a register call
\* changes no other entry; get and build change no entry.
C3_RegistryState ==
    /\ SPECIAL_CLASS_DICT = last_registered
    /\ call.op = "register" =>
          /\ ret = Return(Cls(call.cls))
          /\ SPECIAL_CLASS_DICT[ClsName(call.cls)] = call.cls
C3_RegistryStep ==
    /\ (call'.op \in {"get", "build"}) => SPECIAL_CLASS_DICT' = SPECIAL_CLASS_DICT
    /\ (call'.op = "register") =>
          /\ DOMAIN SPECIAL_CLASS_DICT' = (DOMAIN SPECIAL_CLASS_DICT) \cup {ClsName(call'.cls)}
          /\ \A n \in (DOMAIN SPECIAL_CLASS_DICT) \ {ClsName(call'.cls)} :
                SPECIAL_CLASS_DICT'[n] = SPECIAL_CLASS_DICT[n]
C3_LastRegistrationWins == [](C3_RegistryState) /\ [][C3_RegistryStep]_vars

C3_Witness ==
    /\ SPECIAL_CLASS_DICT["EmptyModule"] = "EmptyModule_redefined"
    /\ "UserModule" \in DOMAIN SPECIAL_CLASS_DICT
    /\ IsBuild /\ ~TypeAbsent /\ TypeName = "EmptyModule"
    /\ ReturnsInstanceOf("EmptyModule_redefined")

\* C4: with special.type absent (no 'special', no 'type', or type None) build
\* returns None, looks nothing up and constructs nothing, whatever kwargs and
\* special.params are.
C4_NoTypeReturnsNone ==
    (IsBuild /\ TypeAbsent) => (ret = Return(None) /\ ctor_calls = <<>> /\ ~logged)

C4_Witness ==
    /\ IsBuild /\ TypeAbsent /\ Collision
    /\ "special" \in DOMAIN call.model_config
    /\ "type" \in DOMAIN call.model_config["special"]
    /\ ret = Return(None)

\* C5: with special.type present and a key of special.params also a key of
\* kwargs, build ends in an error and constructs and returns no instance,
\* whether or not the type name is registered.
C5_CollisionRaises ==
    (IsBuild /\ ~TypeAbsent /\ Collision) => (ret.kind = "raise" /\ ctor_calls = <<>>)

C5_Witness ==
    /\ IsBuild /\ ~TypeAbsent /\ Collision
    /\ TypeName = "EmptyModule"
    /\ call.kwargs["student_model"] # CallParams["student_model"]
    /\ ret = Raise("TypeError")

(***************************************************************************)
(* Auxiliary sub-networks.  A sub-network is known by its kind, by the     *)
(* position of the configuration entry it was constructed for, and by its  *)
(* training flag (nn.Module starts in training mode).                      *)
(***************************************************************************)
MaxEntries == 2     \* entries of a connectors / embedings / regressors mapping

Net(kind, id) == [kind |-> kind, id |-> id, training |-> TRUE]
Unbound == [kind |-> "unbound"]     \* a local variable not yet assigned

make_enc_modules == <<"Conv2d", "BatchNorm2d", "LeakyReLU">>
make_dec_modules == <<"ConvTranspose2d", "BatchNorm2d", "LeakyReLU">>
encoder == make_enc_modules \o make_enc_modules \o make_enc_modules
decoder == make_dec_modules \o make_dec_modules \o make_dec_modules

\* a paraphraser that runs the decoder whatever its mode
Paraphraser4FactorTransfer_forward_always_decodes(training) == encoder \o decoder

\* Paraphraser4FactorTransfer.forward: the layers applied to z
Paraphraser4FactorTransfer_forward(training) ==
    IF training THEN encoder \o decoder ELSE encoder

\* the layers a sub-network applies to its input, in order
Layers(net) ==
    CASE net.kind = "Paraphraser4FactorTransfer" ->
             Paraphraser4FactorTransfer_forward(net.training)
      [] net.kind = "Translator4FactorTransfer" -> encoder
      [] net.kind = "Connector" -> <<"Conv2d", "BatchNorm2d">>
      [] net.kind = "Embed" ->
             <<"permute", "WindowAttention", "permute", "Conv2d", "BatchNorm2d">>
      [] net.kind = "Identity" -> <<"Identity">>
      [] net.kind = "AttnModule" -> <<"Conv2d", "view", "LayerNorm", "Attention">>
      [] net.kind = "Regressor4VID" ->
             <<"Conv2d", "ReLU_inplace", "Conv2d", "ReLU_inplace", "Conv2d">>
      [] net.kind = "Linear" -> <<"Linear">>
      [] net.kind = "Normalizer4CRD" -> <<"Linear", "pow", "sum", "pow", "div">>
      [] net.kind = "ss_module" -> <<"Linear", "ReLU_inplace", "Linear">>
      [] net.kind = "var_estimator" -> <<"Linear", "BatchNorm1d">>

\* layers whose result shares storage with their input, and layers that
\* overwrite their input (nn.ReLU(inplace=True))
AliasLayers == {"Identity", "flatten", "permute", "view"}
InplaceLayers == {"ReLU_inplace"}

\* a pipeline overwrites the tensor it is given when an in-place layer is
\* reached through aliasing layers only
WritesInput(layers) ==
    \E k \in 1..Len(layers) :
        /\ layers[k] \in InplaceLayers
        /\ \A j \in 1..(k - 1) : layers[j] \in AliasLayers

(***************************************************************************)
(* The IO dictionary: path -> io type -> tensor.  A tensor is modelled by  *)
(* the number of in-place writes made to it since the hooks stored it.     *)
(***************************************************************************)
Paths == {"layer1", "layer2"}
IoTypes == {"input", "output"}

Populated == [p \in Paths |-> [io \in IoTypes |-> 0]]

\* net(io_dict[path][io_type]), after torch.flatten(..., 1) when flat
RunAux(net, path, io_type, flat, iod) ==
    LET layers == (IF flat THEN <<"flatten">> ELSE <<>>) \o Layers(net)
    IN [io_dict |-> IF WritesInput(layers)
                    THEN [iod EXCEPT ![path][io_type] = @ + 1]
                    ELSE iod,
        call |-> [role |-> "aux", net |-> net, path |-> path,
                  io_type |-> io_type, flat |-> flat, layers |-> layers]]

(***************************************************************************)
(* wrap_if_distributed lives in torchdistill.models.util.  Given a module  *)
(* it returns the module (possibly wrapped for distribution); what it does *)
(* with None is not fixed here: it may raise on the missing module or hand *)
(* None back.                                                              *)
(***************************************************************************)
wrap_if_distributed(model) ==
    IF IsNone(model) THEN {Raise("AttributeError"), Return(None)} ELSE {Return(model)}

\* redesign_model(org_model, ...) of torchdistill.models.util: a module over org_model
redesign_model(org_model) == org_model

\* self.model = teacher_model if is_teacher else wrap_if_distributed(student_model)
DualRoleModel(kwargs) ==
    LET teacher_model == DictGet(kwargs, "teacher_model", None)
        student_model == DictGet(kwargs, "student_model", None)
    IN IF ~IsNone(teacher_model) THEN {Return(teacher_model)}
       ELSE wrap_if_distributed(student_model)

IsTeacher(kwargs) == ~IsNone(DictGet(kwargs, "teacher_model", None))

\* a wrapper whose __init__ fails when the backbone cannot be wrapped
OrRaise(w, inst) == IF w.kind = "raise" THEN w ELSE Return(inst)

(***************************************************************************)
(* Constructors.  Each gives the set of ways __init__ can end.  The        *)
(* configuration arguments other than the backbones are gathered in cfg.   *)
(***************************************************************************)
DictSet(d, k, v) == [x \in (DOMAIN d) \cup {k} |-> IF x = k THEN v ELSE d[x]]

PairsOf(entries) ==
    [i \in 1..Len(entries) |-> <<entries[i].key, entries[i].io, entries[i].path>>]

\* the loop shared by Connector4DAB, ChannelSimilarityEmbed, ViTEmbed and
\* VariationalDistributor4VID: one new sub-network per configuration entry
StudentDict_init(cls, kind, kwargs, entries) ==
    IF "student_model" \notin DOMAIN kwargs THEN {Raise("TypeError")}
    ELSE LET aux == [k \in {entries[i].key : i \in 1..Len(entries)} |->
                        Net(kind, CHOOSE i \in 1..Len(entries) : entries[i].key = k)]
         IN {OrRaise(w, Instance(cls, Fields(w.value, FALSE, aux, PairsOf(entries), FALSE)))
                : w \in wrap_if_distributed(kwargs["student_model"])}

Connector4DAB_init(kwargs, connectors) ==
    StudentDict_init("Connector4DAB", "Connector", kwargs, connectors)
ChannelSimilarityEmbed_init(kwargs, embedings) ==
    StudentDict_init("ChannelSimilarityEmbed", "Embed", kwargs, embedings)
ViTEmbed_init(kwargs, embedings) ==
    StudentDict_init("ViTEmbed", "AttnModule", kwargs, embedings)
VariationalDistributor4VID_init(kwargs, regressors) ==
    StudentDict_init("VariationalDistributor4VID", "Regressor4VID", kwargs, regressors)

\* 'query' in embed_key: for the keys of EmbedKeys, a word occurs in a key
\* exactly when it is the key
KeyContains(embed_key, word) == embed_key = word

\* the loop of AttnEmbed.__init__ from entry i on; embed is the loop's local
\* variable, which keeps its value from the previous iteration
RECURSIVE AttnEmbed_loop(_, _, _, _, _)
AttnEmbed_loop(embedings, i, is_teacher, embed, aux) ==
    IF i > Len(embedings) THEN Return(aux)
    ELSE LET embed_key == embedings[i].key
             new == IF is_teacher THEN Net("Identity", i)
                    ELSE IF KeyContains(embed_key, "query") THEN Net("Embed", i)
                    ELSE IF KeyContains(embed_key, "value") THEN Net("Embed", i)
                    ELSE embed
         IN IF new = Unbound THEN Raise("UnboundLocalError")
            ELSE AttnEmbed_loop(embedings, i + 1, is_teacher, new,
                                DictSet(aux, embed_key, new))

AttnEmbed_init(kwargs, embedings) ==
    LET is_teacher == IsTeacher(kwargs)
        loop == AttnEmbed_loop(embedings, 1, is_teacher, Unbound, EmptyDict)
    IN {IF w.kind = "raise" THEN w
        ELSE IF loop.kind = "raise" THEN loop
        ELSE Return(Instance("AttnEmbed",
                 Fields(w.value, is_teacher, loop.value, PairsOf(embedings), FALSE)))
           : w \in DualRoleModel(kwargs)}

\* the wrappers with one sub-network reading one IO-dictionary entry
Single(name, kind, io_type, path) ==
    [aux |-> [k \in {name} |-> Net(kind, 1)], pairs |-> << <<name, io_type, path>> >>]

Teacher4FactorTransfer_init(kwargs, cfg) ==
    IF "teacher_model" \notin DOMAIN kwargs THEN {Raise("TypeError")}
    ELSE LET one == Single("paraphraser", "Paraphraser4FactorTransfer", "output", cfg.path)
         IN {Return([Instance("Teacher4FactorTransfer",
                         Fields(redesign_model(kwargs["teacher_model"]), TRUE,
                                one.aux, one.pairs, FALSE))
                     EXCEPT !.fields = [uses_decoder |-> cfg.uses_decoder] @@ @])}

Student4FactorTransfer_init(kwargs, cfg) ==
    IF "student_model" \notin DOMAIN kwargs THEN {Raise("TypeError")}
    ELSE LET one == Single("translator", "Translator4FactorTransfer", "output", cfg.path)
         IN {OrRaise(w, Instance("Student4FactorTransfer",
                            Fields(w.value, FALSE, one.aux, one.pairs, FALSE)))
                : w \in wrap_if_distributed(kwargs["student_model"])}

Linear4CCKD_init(kwargs, input_module) ==
    LET one == Single("linear", "Linear", input_module.io, input_module.path)
    IN {OrRaise(w, Instance("Linear4CCKD",
                       Fields(w.value, IsTeacher(kwargs), one.aux, one.pairs, TRUE)))
           : w \in DualRoleModel(kwargs)}

Linear4CRD_init(kwargs, cfg) ==
    LET one == Single("normalizer", "Normalizer4CRD", "output", cfg.path)
    IN {OrRaise(w, Instance("Linear4CRD",
                       Fields(w.value, IsTeacher(kwargs), one.aux, one.pairs, TRUE)))
           : w \in DualRoleModel(kwargs)}

SSWrapper4SSKD_init(kwargs, input_module) ==
    LET one == Single("ss_module", "ss_module", input_module.io, input_module.path)
    IN {OrRaise(w, Instance("SSWrapper4SSKD",
                       Fields(w.value, IsTeacher(kwargs), one.aux, one.pairs, TRUE)))
           : w \in DualRoleModel(kwargs)}

VarianceBranch4PAD_init(kwargs, input_module) ==
    IF "student_model" \notin DOMAIN kwargs THEN {Raise("TypeError")}
    ELSE LET one == Single("var_estimator", "var_estimator",
                           input_module.io, input_module.path)
         IN {OrRaise(w, Instance("VarianceBranch4PAD",
                            Fields(w.value, FALSE, one.aux, one.pairs, TRUE)))
                : w \in wrap_if_distributed(kwargs["student_model"])}

(***************************************************************************)
(* The wrapper contract: forward, post_forward.                            *)
(***************************************************************************)
Backbone(model, part, no_grad) ==
    [role |-> "backbone", model |-> model, part |-> part, no_grad |-> no_grad]

\* forward(self, ...): how it ends and the modules it invokes, in order
forward(self) ==
    IF self.cls = "EmptyModule" THEN [out |-> Return(None), calls |-> <<>>]
    ELSE IF IsNone(self.fields.model)
    THEN [out |-> Raise("TypeError"), calls |-> <<>>]
    ELSE [out |-> Return(self.fields.model),
          calls |->
            CASE self.cls = "HeadRCNN" ->
                     <<Backbone(self.fields.model, "transform", FALSE),
                       Backbone(self.fields.model, "seq", FALSE)>>
              [] self.cls = "Linear4CRD" ->
                     <<[role |-> "empty", model |-> None, part |-> "supp_dict",
                        no_grad |-> FALSE],
                       Backbone(self.fields.model, "model", self.fields.is_teacher)>>
              [] OTHER ->
                     <<Backbone(self.fields.model, "model", self.fields.is_teacher)>>]

\* a post_forward loop that walks io_path_pairs from the last pair to the first
RECURSIVE post_forward_loop_reversed(_, _, _, _)
post_forward_loop_reversed(self, i, iod, calls) ==
    IF i > Len(self.fields.io_path_pairs) THEN [io_dict |-> iod, calls |-> calls]
    ELSE LET pair == self.fields.io_path_pairs[Len(self.fields.io_path_pairs) + 1 - i]
             r == RunAux(self.fields.aux[pair[1]], pair[3], pair[2], self.fields.flat, iod)
         IN post_forward_loop_reversed(self, i + 1, r.io_dict, Append(calls, r.call))

\* for key, io_type, module_path in self.io_path_pairs:
\*     self.<dict>[key](io_dict[module_path][io_type])
RECURSIVE post_forward_loop(_, _, _, _)
post_forward_loop(self, i, iod, calls) ==
    IF i > Len(self.fields.io_path_pairs) THEN [io_dict |-> iod, calls |-> calls]
    ELSE LET pair == self.fields.io_path_pairs[i]
             r == RunAux(self.fields.aux[pair[1]], pair[3], pair[2], self.fields.flat, iod)
         IN post_forward_loop(self, i + 1, r.io_dict, Append(calls, r.call))

\* a post_forward that runs the paraphraser in whatever mode it is in
Teacher4FactorTransfer_post_forward_as_is(self, iod) ==
    LET r == post_forward_loop(self, 1, iod, <<>>)
    IN [self |-> self, io_dict |-> r.io_dict, calls |-> r.calls]

\* Teacher4FactorTransfer.post_forward, lines 148-151
Teacher4FactorTransfer_post_forward(self, iod) ==
    LET paraphraser == self.fields.aux["paraphraser"]
        switched == IF self.fields.uses_decoder /\ ~paraphraser.training
                    THEN [paraphraser EXCEPT !.training = TRUE]
                    ELSE paraphraser
        self1 == [self EXCEPT !.fields.aux["paraphraser"] = switched]
        r == post_forward_loop(self1, 1, iod, <<>>)
    IN [self |-> self1, io_dict |-> r.io_dict, calls |-> r.calls]

\* post_forward(self, io_dict): the wrapper afterwards, the IO dictionary
\* afterwards and the sub-network invocations made, in order
post_forward(self, iod) ==
    IF self.cls \in {"EmptyModule", "HeadRCNN"}
    THEN [self |-> self, io_dict |-> iod, calls |-> <<>>]
    ELSE IF self.cls = "Teacher4FactorTransfer"
    THEN Teacher4FactorTransfer_post_forward(self, iod)
    ELSE LET r == post_forward_loop(self, 1, iod, <<>>)
         IN [self |-> self, io_dict |-> r.io_dict, calls |-> r.calls]

(***************************************************************************)
(* Inputs of the wrapper operations.                                       *)
(***************************************************************************)
EmbedKeys == {"query", "value", "key"}
Entries == [key : EmbedKeys, io : IoTypes, path : Paths]

\* ordered mappings of at most MaxEntries entries (a dict has distinct keys)
EntrySeqs ==
    {e \in UNION {[1..n -> Entries] : n \in 0..MaxEntries} :
        \A i, j \in 1..Len(e) : i # j => e[i].key # e[j].key}

StudentDictClasses ==
    {"Connector4DAB", "ChannelSimilarityEmbed", "ViTEmbed", "VariationalDistributor4VID"}
DualRoleClasses == {"AttnEmbed", "Linear4CCKD", "Linear4CRD", "SSWrapper4SSKD", "HeadRCNN"}
WrapperClasses ==
    StudentDictClasses \cup DualRoleClasses \cup
    {"EmptyModule", "Teacher4FactorTransfer", "Student4FactorTransfer", "VarianceBranch4PAD"}

Configs(cls) ==
    IF cls \in StudentDictClasses \cup {"AttnEmbed"} THEN EntrySeqs
    ELSE IF cls \in {"Linear4CCKD", "SSWrapper4SSKD", "VarianceBranch4PAD"}
    THEN [path : Paths, io : IoTypes]
    ELSE IF cls \in {"Linear4CRD", "Student4FactorTransfer"} THEN [path : Paths]
    ELSE IF cls = "Teacher4FactorTransfer" THEN [path : Paths, uses_decoder : BOOLEAN]
    ELSE IF cls = "HeadRCNN" THEN {[head_rcnn |-> Obj(1)]}
    ELSE {EmptyDict}

\* cls(**kwargs, **cfg): the ways the constructor can end
InitOutcomes(cls, kwargs, cfg) ==
    CASE cls = "EmptyModule" -> {EmptyModule_init(cls, kwargs)}
      [] cls = "HeadRCNN" -> {HeadRCNN_init(cls, MergeKw(kwargs, cfg))}
      [] cls = "Connector4DAB" -> Connector4DAB_init(kwargs, cfg)
      [] cls = "ChannelSimilarityEmbed" -> ChannelSimilarityEmbed_init(kwargs, cfg)
      [] cls = "ViTEmbed" -> ViTEmbed_init(kwargs, cfg)
      [] cls = "VariationalDistributor4VID" -> VariationalDistributor4VID_init(kwargs, cfg)
      [] cls = "AttnEmbed" -> AttnEmbed_init(kwargs, cfg)
      [] cls = "Teacher4FactorTransfer" -> Teacher4FactorTransfer_init(kwargs, cfg)
      [] cls = "Student4FactorTransfer" -> Student4FactorTransfer_init(kwargs, cfg)
      [] cls = "Linear4CCKD" -> Linear4CCKD_init(kwargs, cfg)
      [] cls = "Linear4CRD" -> Linear4CRD_init(kwargs, cfg)
      [] cls = "SSWrapper4SSKD" -> SSWrapper4SSKD_init(kwargs, cfg)
      [] cls = "VarianceBranch4PAD" -> VarianceBranch4PAD_init(kwargs, cfg)

(***************************************************************************)
(* Wrapper actions: one wrapper is constructed, then the training loop     *)
(* calls forward (during which the hooks fill the IO dictionary) and       *)
(* post_forward, and may switch the wrapper between train() and eval().    *)
(***************************************************************************)
InitWrapper ==
    /\ Imported
    /\ instance = None
    /\ io_dict = EmptyDict
    /\ module_calls = <<>>
    /\ CkptIdle
    /\ AttnIdle

WConstruct(cls, kwargs, cfg) ==
    /\ call.op = "import"
    /\ \E out \in InitOutcomes(cls, kwargs, cfg) :
          /\ ret' = out
          /\ instance' = IF out.kind = "return" THEN out.value ELSE None
    /\ call' = [op |-> "construct", cls |-> cls, kwargs |-> kwargs, cfg |-> cfg]
    /\ module_calls' = <<>>
    /\ UNCHANGED <<io_dict, registry_vars, ckpt_vars, attn_vars>>

Forward ==
    /\ instance # None
    /\ LET r == forward(instance)
       IN /\ ret' = r.out
          /\ module_calls' = r.calls
          /\ io_dict' = IF r.out.kind = "return" THEN Populated ELSE io_dict
    /\ call' = [op |-> "forward"]
    /\ UNCHANGED <<instance, registry_vars, ckpt_vars, attn_vars>>

PostForward ==
    /\ instance # None
    /\ io_dict # EmptyDict
    /\ LET r == post_forward(instance, io_dict)
       IN /\ instance' = r.self
          /\ io_dict' = r.io_dict
          /\ module_calls' = r.calls
    /\ ret' = Return(None)
    /\ call' = [op |-> "post_forward", self |-> instance]
    /\ UNCHANGED <<registry_vars, ckpt_vars, attn_vars>>

\* nn.Module.train(mode) on the wrapper: every sub-module takes the mode
SetTraining(mode) ==
    /\ instance # None
    /\ instance' = [instance EXCEPT !.fields.aux =
                       [k \in DOMAIN @ |-> [@[k] EXCEPT !.training = mode]]]
    /\ ret' = Return(None)
    /\ call' = [op |-> "train", mode |-> mode]
    /\ module_calls' = <<>>
    /\ UNCHANGED <<io_dict, registry_vars, ckpt_vars, attn_vars>>

NextWrapper ==
    \/ \E cls \in WrapperClasses, kwargs \in KwargsSet :
          \E cfg \in Configs(cls) : WConstruct(cls, kwargs, cfg)
    \/ Forward
    \/ PostForward
    \/ \E mode \in BOOLEAN : SetTraining(mode)

SpecWrapper == InitWrapper /\ [][NextWrapper]_vars

(***************************************************************************)
(* Wrapper claims.                                                         *)
(***************************************************************************)
IsConstruct == call.op = "construct"
NeitherSupplied ==
    /\ IsNone(DictGet(call.kwargs, "teacher_model", None))
    /\ IsNone(DictGet(call.kwargs, "student_model", None))

\* C6 as stated: constructing a teacher-or-student wrapper (AttnEmbed,
\* Linear4CCKD, Linear4CRD, SSWrapper4SSKD, HeadRCNN) with neither teacher_model
\* nor student_model raises the descriptive configuration error at construction,
\* and no wrapper with an absent backbone is produced.
C6_Original ==
    (IsConstruct /\ call.cls \in DualRoleClasses /\ NeitherSupplied) =>
        (ret = Raise("ValueError") /\ instance = None)

\* how C6 stands for HeadRCNN, the one wrapper that checks (lines 631-632)
C6_HeadRCNNChecks ==
    (IsConstruct /\ call.cls = "HeadRCNN" /\ NeitherSupplied) =>
        (ret = Raise("ValueError") /\ instance = None)

C6_Witness ==
    /\ IsConstruct /\ call.cls = "Linear4CCKD" /\ NeitherSupplied
    /\ ret.kind = "raise" /\ ret.exc # "ValueError"

\* C7: forward invokes the backbone and no auxiliary sub-network; post_forward
\* invokes, for each configured (name, io_type, path) in configuration order,
\* the sub-network registered under that name once on io_dict[path][io_type],
\* and nothing else; post_forward leaves the IO dictionary as it was.
C7_ForwardState ==
    (call.op = "forward") =>
        \A i \in 1..Len(module_calls) :
            /\ module_calls[i].role \in {"backbone", "empty"}
            /\ module_calls[i].role = "backbone" =>
                  module_calls[i].model = instance.fields.model
C7_PostForwardState ==
    (call.op = "post_forward") =>
        LET pairs == instance.fields.io_path_pairs
        IN /\ Len(module_calls) = Len(pairs)
           /\ \A i \in 1..Len(pairs) :
                 /\ module_calls[i].role = "aux"
                 /\ module_calls[i].net.id = instance.fields.aux[pairs[i][1]].id
                 /\ module_calls[i].net.kind = instance.fields.aux[pairs[i][1]].kind
                 /\ module_calls[i].io_type = pairs[i][2]
                 /\ module_calls[i].path = pairs[i][3]
C7_PostForwardStep == (call'.op = "post_forward") => io_dict' = io_dict
C7_PostForwardReadsOnly ==
    [](C7_ForwardState /\ C7_PostForwardState) /\ [][C7_PostForwardStep]_vars

C7_Witness ==
    /\ call.op = "post_forward"
    /\ instance.cls = "AttnEmbed" /\ ~instance.fields.is_teacher
    /\ Len(module_calls) = 2
    /\ module_calls[1].net.id = 1 /\ module_calls[2].net.id = 2
    /\ module_calls[1].path # module_calls[2].path
    /\ io_dict = Populated

(***************************************************************************)
(* Checkpointing wrappers: Teacher4FactorTransfer (paraphraser),           *)
(* SSWrapper4SSKD (ss_module) and VarianceBranch4PAD (var_estimator).      *)
(* The parameters of a sub-network are a state dict: the architecture it   *)
(* belongs to and its numeric content.                                     *)
(***************************************************************************)

CkptClasses == {"Teacher4FactorTransfer", "SSWrapper4SSKD", "VarianceBranch4PAD"}
CkptPaths == {"a.pt", "b.pt"}
ParamValues == {"theta0", "theta1"}    \* numeric contents of a state dict
Slots == {"first", "second"}      \* the wrappers alive at a time

\* the sub-network a checkpointing wrapper owns
CkptKind(cls) ==
    CASE cls = "Teacher4FactorTransfer" -> "Paraphraser4FactorTransfer"
      [] cls = "SSWrapper4SSKD" -> "ss_module"
      [] cls = "VarianceBranch4PAD" -> "var_estimator"

StateDict(arch, value) == [arch |-> arch, value |-> value]

\* os.path.isfile(path)
isfile(fs, path) == path \in DOMAIN fs

\* load_module_ckpt(module, map_location, ckpt_file_path) of
\* torchdistill.models.util: the module takes the stored parameters; a state
\* dict of another architecture does not load
load_module_ckpt(module, fs, path) ==
    IF fs[path].arch = module.arch THEN Return(fs[path]) ELSE Raise("RuntimeError")

\* save_module_ckpt(module, ckpt_file_path) of torchdistill.models.util: the
\* file at the path holds the module's current parameters
save_module_ckpt(module, fs, path) == DictSet(fs, path, module)

\* a constructor that never reads the checkpoint
ckpt_init_never_loads(cls, ckpt_file_path, fresh, fs) ==
    Return([t |-> "instance", cls |-> cls, ckpt_file_path |-> ckpt_file_path,
            params |-> StateDict(CkptKind(cls), fresh), loaded |-> FALSE])

\* the checkpoint part of __init__ (lines 136-141, 665-675, 703-711): a new
\* sub-network with fresh parameters, replaced by the stored ones when a file
\* is at the path
ckpt_init(cls, ckpt_file_path, fresh, fs) ==
    LET module == StateDict(CkptKind(cls), fresh)
    IN IF isfile(fs, ckpt_file_path)
       THEN LET r == load_module_ckpt(module, fs, ckpt_file_path)
            IN IF r.kind = "raise" THEN r
               ELSE Return([t |-> "instance", cls |-> cls,
                            ckpt_file_path |-> ckpt_file_path,
                            params |-> r.value, loaded |-> TRUE])
       ELSE Return([t |-> "instance", cls |-> cls, ckpt_file_path |-> ckpt_file_path,
                    params |-> module, loaded |-> FALSE])

\* post_process(self): save_module_ckpt(self.<sub-network>, self.ckpt_file_path)
post_process(self, fs) == save_module_ckpt(self.params, fs, self.ckpt_file_path)

\* files left by earlier runs
InitialFiles ==
    {EmptyDict} \cup
    {[p \in {"a.pt"} |-> StateDict(CkptKind(c), v)] : c \in CkptClasses, v \in ParamValues}

InitCkpt ==
    /\ Imported
    /\ WrapperIdle
    /\ AttnIdle
    /\ files \in InitialFiles
    /\ modules = [s \in Slots |-> None]
    /\ last_saved = EmptyDict

CkptConstruct(slot, cls, path, fresh) ==
    LET r == ckpt_init(cls, path, fresh, files)
    IN /\ modules' = [modules EXCEPT ![slot] = IF r.kind = "return" THEN r.value ELSE None]
       /\ ret' = r
       /\ call' = [op |-> "construct", slot |-> slot, cls |-> cls, path |-> path]
       /\ UNCHANGED <<files, last_saved, registry_vars, wrapper_vars, attn_vars>>

\* an optimizer step on the sub-network of a wrapper
TrainStep(slot, value) ==
    /\ modules[slot] # None
    /\ modules[slot].params.value # value
    /\ modules' = [modules EXCEPT ![slot].params.value = value]
    /\ ret' = Return(None)
    /\ call' = [op |-> "step", slot |-> slot]
    /\ UNCHANGED <<files, last_saved, registry_vars, wrapper_vars, attn_vars>>

PostProcess(slot) ==
    /\ modules[slot] # None
    /\ files' = post_process(modules[slot], files)
    /\ last_saved' = DictSet(last_saved, modules[slot].ckpt_file_path, modules[slot].params)
    /\ ret' = Return(None)
    /\ call' = [op |-> "post_process", slot |-> slot]
    /\ UNCHANGED <<modules, registry_vars, wrapper_vars, attn_vars>>

NextCkpt ==
    \/ \E slot \in Slots, cls \in CkptClasses, path \in CkptPaths, fresh \in ParamValues :
          CkptConstruct(slot, cls, path, fresh)
    \/ \E slot \in Slots, value \in ParamValues : TrainStep(slot, value)
    \/ \E slot \in Slots : PostProcess(slot)

SpecCkpt == InitCkpt /\ [][NextCkpt]_vars

(***************************************************************************)
(* Checkpoint claim.                                                       *)
(***************************************************************************)
\* C8: a checkpointing wrapper loads its sub-network's parameters at
\* construction exactly when a file is at the configured path; post_process
\* writes the current parameters to that path and to no other; so a wrapper of
\* the same kind constructed on a path after a post_process there holds the
\* parameters most recently saved there, whatever constructions, training steps
\* and post_process calls came before.
C8_ConstructState ==
    (call.op = "construct" /\ ret.kind = "return") =>
        LET m == modules[call.slot]
        IN /\ m.loaded <=> isfile(files, m.ckpt_file_path)
           /\ m.loaded => m.params = files[m.ckpt_file_path]
C8_RoundTripState ==
    (/\ call.op = "construct"
     /\ call.path \in DOMAIN last_saved
     /\ last_saved[call.path].arch = CkptKind(call.cls)) =>
        /\ ret.kind = "return"
        /\ modules[call.slot].params = last_saved[call.path]
C8_SaveState ==
    (call.op = "post_process") =>
        files[modules[call.slot].ckpt_file_path] = modules[call.slot].params
C8_Step ==
    /\ (call'.op = "post_process") =>
          /\ DOMAIN files' = (DOMAIN files) \cup {modules[call'.slot].ckpt_file_path}
          /\ \A f \in (DOMAIN files) \ {modules[call'.slot].ckpt_file_path} :
                files'[f] = files[f]
    /\ (call'.op \in {"construct", "step"}) => files' = files
C8_CheckpointRoundTrip ==
    [](C8_ConstructState /\ C8_RoundTripState /\ C8_SaveState) /\ [][C8_Step]_vars

C8_Witness ==
    /\ call.op = "construct" /\ call.slot = "second" /\ call.path = "b.pt"
    /\ modules["first"] # None /\ modules["second"] # None
    /\ modules["first"].ckpt_file_path = "b.pt"
    /\ modules["second"].loaded
    /\ modules["second"].params = last_saved["b.pt"]
    /\ modules["first"].params # modules["second"].params
    /\ "a.pt" \notin DOMAIN files

(***************************************************************************)
(* WindowAttention: the index arithmetic of lines 209-221 and 272-336.     *)
(* A grid is a function row -> column -> label, rows and columns counted   *)
(* from 0; the label of an element is the position it had in the input.    *)
(***************************************************************************)
MaxWindow == 3      \* window_size ranges over 1 .. MaxWindow
MaxGrid == 4        \* grid heights and widths range over 1 .. MaxGrid

Height(g) == Cardinality(DOMAIN g)
Width(g) == Cardinality(DOMAIN g[0])
InputGrid(n_h, n_w) == [r \in 0..(n_h - 1) |-> [c \in 0..(n_w - 1) |-> <<r, c>>]]

\* a shift that repeats the border elements instead of wrapping around
roll_clamped(g, displacement) ==
    LET clamp(v, n) == IF v < 0 THEN 0 ELSE IF v > n - 1 THEN n - 1 ELSE v
    IN [r \in DOMAIN g |-> [c \in DOMAIN g[r] |->
           g[clamp(r - displacement, Height(g))][clamp(c - displacement, Width(g))]]]

\* CyclicShift.forward: torch.roll(x, shifts=(displacement, displacement),
\* dims=(1, 2)): the element at (r, c) moves to ((r + d) mod n_h, (c + d) mod n_w)
CyclicShift_forward(g, displacement) ==
    [r \in DOMAIN g |-> [c \in DOMAIN g[r] |->
        g[(r - displacement) % Height(g)][(c - displacement) % Width(g)]]]

\* get_relative_distances(window_size): distances[i][j] = indices[j] - indices[i]
\* with indices = [[x, y] for x in range(window_size) for y in range(window_size)]
get_relative_distances(window_size) ==
    LET indices == [k \in 0..(window_size * window_size - 1) |->
                       <<k \div window_size, k % window_size>>]
    IN [i \in DOMAIN indices |-> [j \in DOMAIN indices |->
           <<indices[j][1] - indices[i][1], indices[j][2] - indices[i][2]>>]]

\* relative indices shifted by window_size, one too far
relative_indices_off_by_one(window_size) ==
    LET distances == get_relative_distances(window_size)
    IN [i \in DOMAIN distances |-> [j \in DOMAIN distances[i] |->
           <<distances[i][j][1] + window_size, distances[i][j][2] + window_size>>]]

\* self.relative_indices = get_relative_distances(window_size) + window_size - 1
relative_indices(window_size) ==
    LET distances == get_relative_distances(window_size)
    IN [i \in DOMAIN distances |-> [j \in DOMAIN distances[i] |->
           <<distances[i][j][1] + window_size - 1, distances[i][j][2] + window_size - 1>>]]

\* tensor elements, as far as the masks tell them apart: an exact zero, minus
\* infinity, and any other finite number; finite inputs and parameters give
\* finite logits
Zero == "0"
NegInf == "-inf"
Finite == "finite"
add(a, b) == IF a = NegInf \/ b = NegInf THEN NegInf ELSE IF a = Zero THEN b ELSE a

\* Python slices of an axis of length n: [k:], [:k] and [start::step]; a
\* negative bound counts from the end and -0 is 0
PySliceFrom(k, n) ==
    LET start == IF k < 0 THEN (IF n + k < 0 THEN 0 ELSE n + k)
                 ELSE (IF k > n THEN n ELSE k)
    IN start..(n - 1)
PySliceTo(k, n) ==
    LET stop == IF k < 0 THEN (IF n + k < 0 THEN 0 ELSE n + k)
                ELSE (IF k > n THEN n ELSE k)
    IN 0..(stop - 1)
PySliceStep(start, step, n) ==
    {i \in 0..(n - 1) : i >= start /\ (i - start) % step = 0}

\* a mask that blocks one direction only: the second assignment of each pair
\* is left out
create_mask_one_sided(window_size, displacement, upper_lower, left_right) ==
    LET n == window_size * window_size
    IN [i \in 0..(n - 1) |-> [j \in 0..(n - 1) |->
          IF \/ /\ upper_lower
                /\ i \in PySliceFrom(-displacement * window_size, n)
                /\ j \in PySliceTo(-displacement * window_size, n)
             \/ /\ left_right
                /\ (i % window_size) \in PySliceFrom(-displacement, window_size)
                /\ (j % window_size) \in PySliceTo(-displacement, window_size)
          THEN NegInf ELSE Zero]]

\* create_mask(window_size, displacement, upper_lower, left_right), lines
\* 256-269; row i is position (i // window_size, i % window_size) of a window
create_mask(window_size, displacement, upper_lower, left_right) ==
    LET n == window_size * window_size
        ul == -displacement * window_size
        lr == -displacement
    IN [i \in 0..(n - 1) |-> [j \in 0..(n - 1) |->
          IF \/ /\ upper_lower
                /\ \/ i \in PySliceFrom(ul, n) /\ j \in PySliceTo(ul, n)
                   \/ i \in PySliceTo(ul, n) /\ j \in PySliceFrom(ul, n)
             \/ /\ left_right
                /\ \/ /\ (i % window_size) \in PySliceFrom(lr, window_size)
                      /\ (j % window_size) \in PySliceTo(lr, window_size)
                   \/ /\ (i % window_size) \in PySliceTo(lr, window_size)
                      /\ (j % window_size) \in PySliceFrom(lr, window_size)
          THEN NegInf ELSE Zero]]

\* WindowAttention.__init__: the attributes the index arithmetic uses
WindowAttention_init(window_size, shifted, relative_pos_embedding) ==
    LET displacement == window_size \div 2
    IN [t |-> "WindowAttention",
        window_size |-> window_size,
        shifted |-> shifted,
        relative_pos_embedding |-> relative_pos_embedding,
        cyclic_shift |-> IF shifted THEN -displacement ELSE 0,
        cyclic_back_shift |-> IF shifted THEN displacement ELSE 0,
        upper_lower_mask |-> IF shifted
                             THEN create_mask(window_size, displacement, TRUE, FALSE)
                             ELSE <<>>,
        left_right_mask |-> IF shifted
                            THEN create_mask(window_size, displacement, FALSE, TRUE)
                            ELSE <<>>,
        relative_indices |-> IF relative_pos_embedding
                             THEN relative_indices(window_size) ELSE <<>>,
        pos_embedding_shape |-> IF relative_pos_embedding
                                THEN <<2 * window_size - 1, 2 * window_size - 1>>
                                ELSE <<window_size * window_size, window_size * window_size>>]

\* rearrange(t, 'b (nw_h w_h) (nw_w w_w) ... -> b ... (nw_h nw_w) (w_h w_w) ...'):
\* window -> position in the window -> element
window_partition(g, window_size) ==
    LET nw_h == Height(g) \div window_size
        nw_w == Width(g) \div window_size
    IN [w \in 0..(nw_h * nw_w - 1) |-> [i \in 0..(window_size * window_size - 1) |->
           g[(w \div nw_w) * window_size + (i \div window_size)]
            [(w % nw_w) * window_size + (i % window_size)]]]

\* rearrange(out, 'b h (nw_h nw_w) (w_h w_w) d -> b (nw_h w_h) (nw_w w_w) (h d)')
window_merge(windows, window_size, nw_h, nw_w) ==
    [r \in 0..(nw_h * window_size - 1) |-> [c \in 0..(nw_w * window_size - 1) |->
        windows[(r \div window_size) * nw_w + (c \div window_size)]
               [(r % window_size) * window_size + (c % window_size)]]]

\* the index pairs line 319 looks up in pos_embedding
pos_embedding_lookups(self) ==
    IF self.relative_pos_embedding
    THEN {self.relative_indices[i][j] :
             i \in DOMAIN self.relative_indices, j \in DOMAIN self.relative_indices}
    ELSE {}

\* the windows that dots[:, :, -nw_w:] selects on the flattened window axis
upper_lower_windows(self, nw_h, nw_w) == PySliceFrom(-nw_w, nw_h * nw_w)

\* the left/right windows picked by the window size instead of the number of
\* windows in a row
left_right_windows_by_window_size(self, nw_h, nw_w) ==
    PySliceStep(self.window_size - 1, self.window_size, nw_h * nw_w)

\* the windows that dots[:, :, nw_w - 1::nw_w] selects
left_right_windows(self, nw_h, nw_w) == PySliceStep(nw_w - 1, nw_w, nw_h * nw_w)

\* dots[:, :, windows] += mask: the logits of the selected windows afterwards,
\* and the masks each window has received so far
add_mask(dots, windows, mask, name) ==
    [w \in DOMAIN dots |->
        IF w \in windows
        THEN [logits |-> [i \in DOMAIN mask |-> [j \in DOMAIN mask[i] |->
                             add(dots[w].logits[i][j], mask[i][j])]],
              masks |-> Append(dots[w].masks, name)]
        ELSE dots[w]]

\* lines 306-332 once the partition into windows is made: the logits before
\* softmax with the masks each window received, the position-table lookups,
\* and the grid put together from the windows
attention(self, g) ==
    LET nw_h == Height(g) \div self.window_size
        nw_w == Width(g) \div self.window_size
        n == self.window_size * self.window_size
        dots == [w \in 0..(nw_h * nw_w - 1) |->
                    [logits |-> [i \in 0..(n - 1) |-> [j \in 0..(n - 1) |-> Finite]],
                     masks |-> <<>>]]
        masked == IF self.shifted
                  THEN add_mask(add_mask(dots, upper_lower_windows(self, nw_h, nw_w),
                                         self.upper_lower_mask, "upper_lower"),
                                left_right_windows(self, nw_h, nw_w),
                                self.left_right_mask, "left_right")
                  ELSE dots
    IN [out |-> Return([lookups |-> pos_embedding_lookups(self), dots |-> masked]),
        grid |-> window_merge(window_partition(g, self.window_size),
                              self.window_size, nw_h, nw_w)]

\* an attention that takes n_h // window_size and n_w // window_size windows
\* whatever the remainder
attend_unchecked(self, g) == attention(self, g)

\* lines 306-332 of WindowAttention.forward on the (shifted) grid: einops
\* refuses (line 312) a height or width the window size does not divide
attend(self, g) ==
    IF Height(g) % self.window_size # 0 \/ Width(g) % self.window_size # 0
    THEN [out |-> Raise("EinopsError"), grid |-> g]
    ELSE attention(self, g)

InitAttn ==
    /\ Imported
    /\ WrapperIdle
    /\ CkptIdle
    /\ AttnIdle

\* a module is constructed and given an input grid
AttnConstruct(window_size, shifted, relative_pos_embedding, n_h, n_w) ==
    /\ call.op = "import"
    /\ attn' = WindowAttention_init(window_size, shifted, relative_pos_embedding)
    /\ x_in' = InputGrid(n_h, n_w)
    /\ x_now' = InputGrid(n_h, n_w)
    /\ call' = [op |-> "construct"]
    /\ ret' = Return(None)
    /\ UNCHANGED <<registry_vars, wrapper_vars, ckpt_vars>>

\* if self.shifted: x = self.cyclic_shift(x)
CyclicShiftStep ==
    /\ call.op = "construct"
    /\ attn.shifted
    /\ x_now' = CyclicShift_forward(x_now, attn.cyclic_shift)
    /\ call' = [op |-> "cyclic_shift"]
    /\ ret' = Return(None)
    /\ UNCHANGED <<attn, x_in, registry_vars, wrapper_vars, ckpt_vars>>

AttendStep ==
    /\ \/ call.op = "construct" /\ ~attn.shifted
       \/ call.op = "cyclic_shift"
    /\ LET r == attend(attn, x_now)
       IN /\ x_now' = r.grid
          /\ ret' = r.out
    /\ call' = [op |-> "attend"]
    /\ UNCHANGED <<attn, x_in, registry_vars, wrapper_vars, ckpt_vars>>

\* if self.shifted: out = self.cyclic_back_shift(out); the back shift module
\* may also be applied to the shifted grid directly
CyclicBackShiftStep ==
    /\ attn # None
    /\ attn.shifted
    /\ call.op \in {"cyclic_shift", "attend"}
    /\ ret.kind = "return"
    /\ x_now' = CyclicShift_forward(x_now, attn.cyclic_back_shift)
    /\ call' = [op |-> "cyclic_back_shift"]
    /\ ret' = Return(None)
    /\ UNCHANGED <<attn, x_in, registry_vars, wrapper_vars, ckpt_vars>>

NextAttn ==
    \/ \E window_size \in 1..MaxWindow, shifted \in BOOLEAN,
          relative_pos_embedding \in BOOLEAN, n_h \in 1..MaxGrid, n_w \in 1..MaxGrid :
          AttnConstruct(window_size, shifted, relative_pos_embedding, n_h, n_w)
    \/ CyclicShiftStep
    \/ AttendStep
    \/ CyclicBackShiftStep

SpecAttn == InitAttn /\ [][NextAttn]_vars

(***************************************************************************)
(* WindowAttention claims.                                                 *)
(***************************************************************************)
\* C9: in a shifted WindowAttention, the cyclic shift by -window_size // 2
\* followed by the back shift by +window_size // 2 returns every element to its
\* original row and column, for every grid height, width and window size.
C9_ShiftRoundTrip ==
    (call.op = "cyclic_back_shift") =>
        /\ x_now = x_in
        /\ \A r \in DOMAIN x_now : \A c \in DOMAIN x_now[r] : x_now[r][c] = <<r, c>>

C9_Witness ==
    /\ call.op = "cyclic_back_shift"
    /\ attn.window_size = 3 /\ attn.cyclic_shift = -1
    /\ Height(x_in) = 4 /\ Width(x_in) = 3
    /\ x_now = x_in

\* the shift moves elements at all (so the round trip is not a pair of no-ops)
C9_ShiftMoves ==
    /\ call.op = "cyclic_shift"
    /\ attn.window_size = 2
    /\ Height(x_in) = 4 /\ Width(x_in) = 4
    /\ x_now[0][0] = <<1, 1>>
    /\ x_now[3][3] = <<0, 0>>

\* C10: for every window_size >= 1 each relative offset between two positions
\* of a window lies in [-(window_size-1), window_size-1] on each axis, every
\* entry of relative_indices lies in [0, 2*window_size-2], and every index pair
\* looked up in the position table is within the table's shape.
C10_RelativeIndicesInRange ==
    /\ (attn # None /\ attn.relative_pos_embedding) =>
          LET ws == attn.window_size
              distances == get_relative_distances(ws)
          IN \A i \in DOMAIN attn.relative_indices :
                \A j \in DOMAIN attn.relative_indices[i] :
                   \A axis \in 1..2 :
                      /\ distances[i][j][axis] \in (-(ws - 1))..(ws - 1)
                      /\ attn.relative_indices[i][j][axis] \in 0..(2 * ws - 2)
                      /\ attn.relative_indices[i][j][axis] = distances[i][j][axis] + ws - 1
    /\ (call.op = "attend" /\ ret.kind = "return") =>
          \A idx \in ret.value.lookups :
             \A axis \in 1..2 : idx[axis] \in 0..(attn.pos_embedding_shape[axis] - 1)

C10_Witness ==
    /\ call.op = "attend" /\ ret.kind = "return"
    /\ attn.relative_pos_embedding /\ attn.window_size = 2
    /\ {idx[1] : idx \in ret.value.lookups} = {0, 1, 2}
    /\ {get_relative_distances(2)[i][j][2] : i \in 0..3, j \in 0..3} = {-1, 0, 1}
    /\ attn.relative_indices[3][0] = <<0, 0>>
    /\ attn.relative_indices[0][3] = <<2, 2>>

\* a shifted forward pass has got through the attention step
ShiftedAttended == call.op = "attend" /\ ret.kind = "return" /\ attn.shifted
NumWindowsDown == Height(x_in) \div attn.window_size
NumWindowsAcross == Width(x_in) \div attn.window_size
Received(w, name) ==
    \E k \in 1..Len(ret.value.dots[w].masks) : ret.value.dots[w].masks[k] = name

\* C11 as stated: in a shifted forward pass the upper/lower mask is added to
\* the last window_size windows of the flattened window axis and the left/right
\* mask to every window_size-th window starting at offset window_size - 1, and
\* to no other window.
C11_Original ==
    ShiftedAttended =>
        LET ws == attn.window_size
            n == NumWindowsDown * NumWindowsAcross
        IN \A w \in DOMAIN ret.value.dots :
              /\ Received(w, "upper_lower") <=> w >= n - ws
              /\ Received(w, "left_right") <=> (w >= ws - 1 /\ (w - (ws - 1)) % ws = 0)

\* C11: in a shifted forward pass over nw_h rows of nw_w windows (nw_w = width
\* // window_size), the upper/lower mask is added, once, to the last nw_w
\* windows of the flattened window axis (the bottom row of windows) and the
\* left/right mask, once, to every nw_w-th window starting at offset nw_w - 1
\* (the last window of each row); no other window's logits receive a mask, and
\* the logits of a window are the unmasked logits plus the masks it received.
C11_MasksByWindowsPerRow ==
    ShiftedAttended =>
        LET nw_h == NumWindowsDown
            nw_w == NumWindowsAcross
        IN /\ DOMAIN ret.value.dots = 0..(nw_h * nw_w - 1)
           /\ \A w \in DOMAIN ret.value.dots :
                 LET d == ret.value.dots[w]
                     ul == w \div nw_w = nw_h - 1
                     lr == w % nw_w = nw_w - 1
                 IN /\ Received(w, "upper_lower") <=> ul
                    /\ Received(w, "left_right") <=> lr
                    /\ Len(d.masks) = (IF ul THEN 1 ELSE 0) + (IF lr THEN 1 ELSE 0)
                    /\ \A i \in DOMAIN d.logits : \A j \in DOMAIN d.logits[i] :
                          d.logits[i][j] = NegInf <=>
                             \/ ul /\ attn.upper_lower_mask[i][j] = NegInf
                             \/ lr /\ attn.left_right_mask[i][j] = NegInf

C11_Witness ==
    /\ ShiftedAttended
    /\ attn.window_size = 2 /\ Height(x_in) = 4 /\ Width(x_in) = 2
    /\ ret.value.dots[0].masks = <<"left_right">>
    /\ ret.value.dots[1].masks = <<"upper_lower", "left_right">>
    /\ ret.value.dots[0].logits[0][1] = NegInf
    /\ ret.value.dots[0].logits[0][2] = Finite
    /\ ret.value.dots[1].logits[0][2] = NegInf

\* the input's height or width is not an exact multiple of window_size
NotDivisible ==
    \/ Height(x_in) % attn.window_size # 0
    \/ Width(x_in) % attn.window_size # 0
AttendFailed == call.op = "attend" /\ ret.kind = "raise"

\* C12: when the input's height or width is not an exact multiple of
\* window_size, the attention step of forward raises: no logits, no output grid
\* and no back shift follow, so nothing computed from a truncated partition is
\* ever returned; forward ends with the error.
C12_AttendState ==
    (call.op = "attend" /\ NotDivisible) =>
        /\ ret.kind = "raise"
        /\ x_now = (IF attn.shifted THEN CyclicShift_forward(x_in, attn.cyclic_shift)
                    ELSE x_in)
C12_ReturnState ==
    (call.op = "attend" /\ ret.kind = "return") =>
        /\ ~NotDivisible
        /\ DOMAIN ret.value.dots =
              0..((Height(x_in) \div attn.window_size) * (Width(x_in) \div attn.window_size) - 1)
        /\ Height(x_now) = Height(x_in) /\ Width(x_now) = Width(x_in)
C12_FailedStep == ~AttendFailed
C12_NonMultipleFails ==
    [](C12_AttendState /\ C12_ReturnState) /\ [][C12_FailedStep]_vars

C12_Witness ==
    /\ AttendFailed
    /\ attn.shifted /\ attn.window_size = 2
    /\ Height(x_in) = 4 /\ Width(x_in) = 3
    /\ x_now # x_in
    /\ x_now[0][0] = <<1, 1>>

Symmetric(m) == \A i \in DOMAIN m : \A j \in DOMAIN m : m[i][j] = m[j][i]
ZeroDiagonal(m) == \A i \in DOMAIN m : m[i][i] = Zero
MaskSum(a, b) == [i \in DOMAIN a |-> [j \in DOMAIN a[i] |-> add(a[i][j], b[i][j])]]

\* C15: for every window_size >= 1 with displacement window_size // 2, the
\* upper/lower mask, the left/right mask and their sum are symmetric with an
\* all-zero diagonal; so after the masks are added in a shifted forward pass,
\* every query position of every window (the corner window with both masks
\* included) still has a logit that is not -infinity: the one of its own
\* position.
C15_MasksKeepDiagonal ==
    /\ (attn # None /\ attn.shifted) =>
          LET n == attn.window_size * attn.window_size
              both == MaskSum(attn.upper_lower_mask, attn.left_right_mask)
          IN /\ DOMAIN attn.upper_lower_mask = 0..(n - 1)
             /\ DOMAIN attn.left_right_mask = 0..(n - 1)
             /\ Symmetric(attn.upper_lower_mask) /\ ZeroDiagonal(attn.upper_lower_mask)
             /\ Symmetric(attn.left_right_mask) /\ ZeroDiagonal(attn.left_right_mask)
             /\ Symmetric(both) /\ ZeroDiagonal(both)
    /\ ShiftedAttended =>
          \A w \in DOMAIN ret.value.dots :
             \A i \in DOMAIN ret.value.dots[w].logits :
                ret.value.dots[w].logits[i][i] # NegInf

C15_Witness ==
    /\ ShiftedAttended
    /\ attn.window_size = 3 /\ Height(x_in) = 3 /\ Width(x_in) = 3
    /\ ret.value.dots[0].masks = <<"upper_lower", "left_right">>
    /\ attn.upper_lower_mask[0][8] = NegInf /\ attn.upper_lower_mask[8][0] = NegInf
    /\ attn.left_right_mask[0][2] = NegInf /\ attn.left_right_mask[2][0] = NegInf
    /\ attn.left_right_mask[0][1] = Zero
    /\ {j \in 0..8 : ret.value.dots[0].logits[8][j] # NegInf} = {8}

(***************************************************************************)
(* Claims about the factor-transfer paraphraser and about AttnEmbed.       *)
(***************************************************************************)
\* post_forward of a Teacher4FactorTransfer has just run its paraphraser
ParaphraserRan ==
    /\ call.op = "post_forward"
    /\ instance.cls = "Teacher4FactorTransfer"
    /\ Len(module_calls) = 1
    /\ module_calls[1].net.kind = "Paraphraser4FactorTransfer"
IsPrefix(a, b) == Len(a) <= Len(b) /\ \A k \in 1..Len(a) : a[k] = b[k]

\* C13: Paraphraser4FactorTransfer.forward applies the encoder and then the
\* decoder to its input when the module is in training mode, and the encoder
\* only when it is in evaluation mode: in evaluation mode the result is the
\* result of the encoder sub-path on the same input.
C13_ParaphraserModes ==
    ParaphraserRan =>
        LET applied == module_calls[1].layers
            training == instance.fields.aux["paraphraser"].training
        IN /\ module_calls[1].net.training = training
           /\ training => applied = encoder \o decoder
           /\ ~training => applied = encoder
           /\ IsPrefix(encoder, applied)
           /\ module_calls[1].path = instance.fields.io_path_pairs[1][3]
           /\ module_calls[1].io_type = "output"

C13_Witness ==
    /\ ParaphraserRan
    /\ ~instance.fields.uses_decoder
    /\ ~instance.fields.aux["paraphraser"].training
    /\ module_calls[1].layers = encoder
    /\ Len(module_calls[1].layers) = 9
    /\ module_calls[1].layers[7] = "Conv2d"

\* the training-mode pass goes on through the decoder
C13_TrainingWitness ==
    /\ ParaphraserRan
    /\ ~instance.fields.uses_decoder
    /\ instance.fields.aux["paraphraser"].training
    /\ Len(module_calls[1].layers) = 18
    /\ module_calls[1].layers[10] = "ConvTranspose2d"

\* C14: Teacher4FactorTransfer.post_forward with uses_decoder true always runs
\* the paraphraser in training mode, encoder then decoder: a paraphraser in
\* evaluation mode on entry is switched to training mode first and is in
\* training mode after the call; with uses_decoder false, post_forward leaves
\* the paraphraser's mode as it was on entry and runs it in that mode.
C14_PostForwardState ==
    ParaphraserRan =>
        LET before == call.self.fields.aux["paraphraser"].training
            after == instance.fields.aux["paraphraser"].training
            ran == module_calls[1]
        IN /\ instance.fields.uses_decoder = call.self.fields.uses_decoder
           /\ instance.fields.uses_decoder =>
                 /\ after
                 /\ ran.net.training
                 /\ ran.layers = encoder \o decoder
           /\ ~instance.fields.uses_decoder =>
                 /\ after = before
                 /\ ran.net.training = before
                 /\ ran.layers = (IF before THEN encoder \o decoder ELSE encoder)
C14_PostForwardStep ==
    (call'.op = "post_forward" /\ instance.cls = "Teacher4FactorTransfer") =>
        /\ call'.self = instance
        /\ instance'.fields.aux["paraphraser"].training =
              (instance.fields.aux["paraphraser"].training \/ instance.fields.uses_decoder)
        /\ [instance' EXCEPT !.fields.aux["paraphraser"].training = TRUE] =
              [instance EXCEPT !.fields.aux["paraphraser"].training = TRUE]
C14_DecoderForcesTraining ==
    []C14_PostForwardState /\ [][C14_PostForwardStep]_vars

C14_Witness ==
    /\ ParaphraserRan
    /\ instance.fields.uses_decoder
    /\ ~call.self.fields.aux["paraphraser"].training
    /\ instance.fields.aux["paraphraser"].training
    /\ module_calls[1].layers = encoder \o decoder

\* with uses_decoder false an evaluation-mode paraphraser stays in evaluation mode
C14_EvalKeptWitness ==
    /\ ParaphraserRan
    /\ ~instance.fields.uses_decoder
    /\ ~call.self.fields.aux["paraphraser"].training
    /\ ~instance.fields.aux["paraphraser"].training

\* an AttnEmbed has been constructed for a student / for a teacher that is there
AttnEmbedStudent ==
    /\ IsConstruct /\ call.cls = "AttnEmbed"
    /\ IsNone(DictGet(call.kwargs, "teacher_model", None))
    /\ ~IsNone(DictGet(call.kwargs, "student_model", None))
AttnEmbedTeacher ==
    /\ IsConstruct /\ call.cls = "AttnEmbed"
    /\ ~IsNone(DictGet(call.kwargs, "teacher_model", None))
\* every key of the configuration, in order, has the (key, io, path) entry and
\* a sub-network of the given kind made in the iteration of that key
OnePerKey(kind) ==
    /\ ret.kind = "return"
    /\ instance = ret.value
    /\ DOMAIN instance.fields.aux = {call.cfg[i].key : i \in 1..Len(call.cfg)}
    /\ Len(instance.fields.io_path_pairs) = Len(call.cfg)
    /\ \A i \in 1..Len(call.cfg) :
          /\ instance.fields.io_path_pairs[i] =
                <<call.cfg[i].key, call.cfg[i].io, call.cfg[i].path>>
          /\ instance.fields.aux[call.cfg[i].key].kind = kind
          /\ instance.fields.aux[call.cfg[i].key].id = i
    /\ \A i, j \in 1..Len(call.cfg) :
          i # j => instance.fields.aux[call.cfg[i].key] # instance.fields.aux[call.cfg[j].key]

\* C16 as stated: constructing an AttnEmbed for a student registers, for every
\* key of the embedings configuration in order, one (key, io, path) entry and
\* one Embed newly constructed for that key and shared with no other key;
\* constructing it for a teacher gives every key an identity pass-through and
\* constructs no Embed.
C16_Original ==
    /\ AttnEmbedStudent => OnePerKey("Embed")
    /\ AttnEmbedTeacher => OnePerKey("Identity")

\* what the loop does with a key that names neither a query nor a value: the
\* first such key ends the construction, a later one gets the previous key's Embed
C16_UnboundWitness ==
    /\ AttnEmbedStudent
    /\ Len(call.cfg) = 1 /\ call.cfg[1].key = "key"
    /\ ret = Raise("UnboundLocalError")
    /\ instance = None
C16_SharedWitness ==
    /\ AttnEmbedStudent
    /\ Len(call.cfg) = 2 /\ call.cfg[1].key = "query" /\ call.cfg[2].key = "key"
    /\ ret.kind = "return"
    /\ instance.fields.aux["key"] = instance.fields.aux["query"]
    /\ instance.fields.aux["key"].id = 1

\* the part of C16 that holds: keys naming a query or a value each get their
\* own Embed, and a teacher gets identities only
C16_QueryValueKeys ==
    /\ (AttnEmbedStudent /\ \A i \in 1..Len(call.cfg) : call.cfg[i].key \in {"query", "value"})
          => OnePerKey("Embed")
    /\ AttnEmbedTeacher => OnePerKey("Identity")

====
